---- MODULE Spec2Model ----
(***************************************************************************)
(* Model of TemplateReplaceStream (src/index.ts): a Transform stream that  *)
(* replaces {{ name }} placeholders in a byte stream delivered in chunks.  *)
(* Buffers are sequences of one-character strings; every index is 0-based  *)
(* as in the source and converted at the point of access.                  *)
(***************************************************************************)
EXTENDS Integers, Sequences, FiniteSets, TLC

\* ------------------------------------------------------------------ bounds
\* longest input (sum of all chunk lengths) the upstream producer delivers
MaxLen == 5
\* _matchCount values above this are not explored (the counter is unbounded)
MaxMatchCount == 12
\* resolver calls beyond this are not explored (a loop may call it forever)
MaxCalls == 4
\* streamOptions.highWaterMark of the writable side, in bytes
HighWaterMark == 4
\* longest input delivered in the runs checked for termination
MaxLiveLen == 3
\* longest input given to replaceAsync as a whole
MaxInputLen == 6

\* ---------------------------------------------------------------- alphabet
Byte == {"{", "}", "a", " "}

SEARCHING_START_PATTERN == "SEARCHING_START_PATTERN"
PROCESSING_VARIABLE == "PROCESSING_VARIABLE"
SEARCHING_END_PATTERN == "SEARCHING_END_PATTERN"

\* a replacement value: undefined, a string or a Buffer
Undefined == [kind |-> "undefined", bytes |-> <<>>]
StringValue(b) == [kind |-> "string", bytes |-> b]
BufferValue(b) == [kind |-> "buffer", bytes |-> b]
\* a Readable that yields the given chunks, and a Promise of a value
StreamValue(chunks) == [kind |-> "stream", chunks |-> chunks]
PromiseValue(v) == [kind |-> "promise", value |-> v]
\* a resolver call that throws err, the settlement of a Promise that rejects
\* with err, and a Readable that yields the chunks and then fails with err
Thrown(err) == [kind |-> "throws", error |-> err]
Rejected(err) == [kind |-> "rejected", error |-> err]
FailingStream(chunks, err) ==
  [kind |-> "stream", chunks |-> chunks, error |-> err]

\* Buffer.concat(chunks)
RECURSIVE Concat(_)
Concat(chunks) ==
  IF chunks = <<>> THEN <<>> ELSE Head(chunks) \o Concat(Tail(chunks))

NoError == [kind |-> "none", name |-> <<>>]

\* what a resolver fails with: an Error object or a value that is no Error
ResolverError == [kind |-> "ResolverError", name |-> <<>>]
ThrownString == [kind |-> "string", bytes |-> <<"a">>]

\* the argument of callback in the catch block of _transform:
\* e instanceof Error ? e : new Error(`${e}`)
callbackError(e) ==
  IF e.kind = "string" THEN [kind |-> "Error", name |-> e.bytes] ELSE e

\* the resolver (Map<string, StringSource>) the engine is constructed with:
\* "a" has a value, "aa" has the empty string as value, no other name is known
VariableMap ==
  [n \in {<<"a">>, <<"a", "a">>} |->
     IF n = <<"a">> THEN StringValue(<<"V">>) ELSE StringValue(<<>>)]
Resolvers == {VariableMap}

\* the start/end pattern pairs the engine is constructed with
PatternPairs ==
  { [startPattern |-> <<"{", "{">>, endPattern |-> <<"}", "}">>],
    [startPattern |-> <<"{">>, endPattern |-> <<"}">>] }

MaxVariableNameLengths == {1, 4}

OptionsSet ==
  [ startPattern : {p.startPattern : p \in PatternPairs},
    endPattern : {p.endPattern : p \in PatternPairs},
    maxVariableNameLength : MaxVariableNameLengths,
    throwOnUnmatchedTemplate : BOOLEAN ]

VARIABLES
  stack,       \* _stack: bytes received and not yet pushed or discarded
  state,       \* _state
  matchCount,  \* _matchCount
  stackIndex,  \* _stackIndex
  options,     \* _options with _startPattern and _endPattern
  resolver,    \* the Map behind _resolveVariable
  out,         \* every byte given to this.push, in order
  error,       \* the error given to the _transform callback, if any
  pc,          \* idle / loop (inside _transform) / failed / done (flushed)
  ingested,    \* history: all chunk bytes received so far
  back,        \* history: the input bytes that have left the stack and the
               \* object chunks that were forwarded, in output order
  calls,       \* history: the names _resolveVariable was called with
  awaiting,    \* the value the promise awaited in _transform settles to
  source,      \* the chunks the Readable being forwarded has not yet yielded
  accepted,    \* what the last push of writeStreamToOutput returned
  needDrain,   \* a write() returned false and 'drain' was not emitted since
  suspended,   \* history: the engine when the loop iteration that awaits
               \* a value or forwards a Readable began
  upstream     \* the Readable piped into the stream: open / failed

asyncVars == <<awaiting, source, accepted, needDrain>>

vars == <<stack, state, matchCount, stackIndex, options, resolver, out, error,
          pc, ingested, back, calls, awaiting, source, accepted, needDrain,
          suspended, upstream>>

\* ----------------------------------------------------------- Buffer helpers
Min(S) == CHOOSE x \in S : \A y \in S : x <= y

\* buf[i] for a 0-based i; out of range reads give undefined
At(buf, i) == IF 0 <= i /\ i < Len(buf) THEN buf[i + 1] ELSE "undefined"

\* Buffer.indexOf(byte, byteOffset): a negative offset counts from the end
indexOf(buf, byte, byteOffset) ==
  LET from == IF byteOffset >= 0 THEN byteOffset
              ELSE IF Len(buf) + byteOffset >= 0 THEN Len(buf) + byteOffset
              ELSE 0
      hits == {i \in from..(Len(buf) - 1) : buf[i + 1] = byte}
  IN IF hits = {} THEN -1 ELSE Min(hits)

\* Buffer.subarray(start, end): indices are clamped, negative ones count
\* from the end
clampIndex(i, n) ==
  IF i < 0 THEN (IF n + i < 0 THEN 0 ELSE n + i) ELSE (IF i > n THEN n ELSE i)

subarray(buf, start, end) ==
  LET s == clampIndex(start, Len(buf))
      e == clampIndex(end, Len(buf))
  IN IF e <= s THEN <<>> ELSE SubSeq(buf, s + 1, e)

\* String.prototype.trim on the decoded name: strips surrounding whitespace
RECURSIVE trimStart(_)
trimStart(s) == IF s # <<>> /\ Head(s) = " " THEN trimStart(Tail(s)) ELSE s

RECURSIVE trimEnd(_)
trimEnd(s) ==
  IF s # <<>> /\ s[Len(s)] = " " THEN trimEnd(SubSeq(s, 1, Len(s) - 1)) ELSE s

\* a trim that strips leading whitespace only
trim_leadingOnly(s) == trimStart(s)

trim(s) == trimEnd(trimStart(s))

\* JavaScript truthiness of a resolved value: '' and undefined are falsy,
\* every Buffer (also an empty one) and every Readable is truthy
truthy(value) ==
  \/ value.kind = "buffer"
  \/ value.kind = "stream"
  \/ value.kind = "string" /\ value.bytes # <<>>

\* Map.prototype.get bound as _resolveVariable
resolveVariable(name) ==
  IF name \in DOMAIN resolver THEN resolver[name] ELSE Undefined

\* ------------------------------------------------------------ engine record
\* the fields of the stream object the private methods read and write
This ==
  [ stack |-> stack, state |-> state, matchCount |-> matchCount,
    stackIndex |-> stackIndex, out |-> out, error |-> error,
    back |-> back, calls |-> calls ]

\* a release that crops one byte more from the stack than it pushes
releaseStack_cropsOneMore(e, index) ==
  IF index <= 0 THEN e
  ELSE IF index >= Len(e.stack) - 1
    THEN [e EXCEPT !.out = @ \o subarray(e.stack, 0, index),
                   !.back = @ \o subarray(e.stack, 0, index),
                   !.stack = <<>>,
                   !.stackIndex = @ - index]
    ELSE [e EXCEPT !.out = @ \o subarray(e.stack, 0, index),
                   !.back = @ \o subarray(e.stack, 0, index),
                   !.stack = subarray(e.stack, index + 1, Len(e.stack)),
                   !.stackIndex = @ - index]

\* releaseStack(index)
releaseStack(e, index) ==
  IF index <= 0 THEN e
  ELSE IF index = Len(e.stack)
    THEN [e EXCEPT !.out = @ \o e.stack,
                   !.back = @ \o e.stack,
                   !.stack = <<>>,
                   !.stackIndex = @ - index]
    ELSE [e EXCEPT !.out = @ \o subarray(e.stack, 0, index),
                   !.back = @ \o subarray(e.stack, 0, index),
                   !.stack = subarray(e.stack, index, Len(e.stack)),
                   !.stackIndex = @ - index]

\* the for loop of findStartPattern and the assignment after it
RECURSIVE continueStartPattern(_)
continueStartPattern(e) ==
  IF e.matchCount < Len(options.startPattern)
    THEN IF e.stackIndex >= Len(e.stack) THEN e
         ELSE IF At(e.stack, e.stackIndex) # At(options.startPattern, e.matchCount)
           THEN [e EXCEPT !.matchCount = 0]
           ELSE continueStartPattern([e EXCEPT !.matchCount = @ + 1,
                                               !.stackIndex = @ + 1])
    ELSE [e EXCEPT !.state = PROCESSING_VARIABLE]

\* findStartPattern()
findStartPattern(e) ==
  IF e.matchCount = 0
    THEN LET i == indexOf(e.stack, options.startPattern[1], 0)
         IN IF i = -1
              THEN [e EXCEPT !.stackIndex = Len(e.stack)]
              ELSE continueStartPattern([e EXCEPT !.stackIndex = i + 1,
                                                  !.matchCount = 1])
    ELSE continueStartPattern(e)

\* findVariableEnd() with the release moved in front of the policy check: the
\* scanned bytes are pushed before the error is thrown
findVariableEnd_releaseBeforeThrow(e) ==
  LET nextEndIndex == indexOf(e.stack, options.endPattern[1], e.stackIndex)
      nextStartIndex == indexOf(e.stack, options.startPattern[1], e.stackIndex)
      count == e.matchCount + Len(e.stack) - e.stackIndex
  IN IF nextEndIndex = -1 /\ nextStartIndex = -1
       THEN IF count < options.maxVariableNameLength
              THEN [e EXCEPT !.matchCount = count, !.stackIndex = Len(e.stack)]
              ELSE IF options.throwOnUnmatchedTemplate
                THEN [releaseStack([e EXCEPT !.matchCount = count,
                                             !.state = SEARCHING_START_PATTERN],
                                   Len(e.stack))
                        EXCEPT !.error = [kind |-> "VariableNameTooLong",
                                          name |-> <<>>]]
                ELSE releaseStack([e EXCEPT !.matchCount = count,
                                            !.state = SEARCHING_START_PATTERN],
                                  Len(e.stack))
       ELSE IF nextStartIndex = -1 \/ nextStartIndex > nextEndIndex
         THEN [e EXCEPT !.state = SEARCHING_END_PATTERN,
                        !.stackIndex = nextEndIndex + 1,
                        !.matchCount = 1]
         ELSE [releaseStack([e EXCEPT !.state = SEARCHING_START_PATTERN,
                                      !.stackIndex = nextStartIndex + 1],
                            nextStartIndex)
                 EXCEPT !.matchCount = 1]

\* findVariableEnd()
findVariableEnd(e) ==
  LET nextEndIndex == indexOf(e.stack, options.endPattern[1], e.stackIndex)
      nextStartIndex == indexOf(e.stack, options.startPattern[1], e.stackIndex)
      count == e.matchCount + Len(e.stack) - e.stackIndex
  IN IF nextEndIndex = -1 /\ nextStartIndex = -1
       THEN IF count < options.maxVariableNameLength
              THEN [e EXCEPT !.matchCount = count, !.stackIndex = Len(e.stack)]
              ELSE IF options.throwOnUnmatchedTemplate
                THEN [e EXCEPT !.matchCount = count,
                               !.state = SEARCHING_START_PATTERN,
                               !.error = [kind |-> "VariableNameTooLong",
                                          name |-> <<>>]]
                ELSE releaseStack([e EXCEPT !.matchCount = count,
                                            !.state = SEARCHING_START_PATTERN],
                                  Len(e.stack))
       ELSE IF nextStartIndex = -1 \/ nextStartIndex > nextEndIndex
         THEN [e EXCEPT !.state = SEARCHING_END_PATTERN,
                        !.stackIndex = nextEndIndex + 1,
                        !.matchCount = 1]
         ELSE [releaseStack([e EXCEPT !.state = SEARCHING_START_PATTERN,
                                      !.stackIndex = nextStartIndex + 1],
                            nextStartIndex)
                 EXCEPT !.matchCount = 1]

\* findEndPattern() that releases the mismatching byte with the bytes before it
RECURSIVE findEndPattern_skipsMismatch(_)
findEndPattern_skipsMismatch(e) ==
  IF e.matchCount < Len(options.endPattern)
    THEN IF e.stackIndex >= Len(e.stack)
           THEN [engine |-> e, match |-> FALSE]
         ELSE IF At(e.stack, e.stackIndex) # At(options.endPattern, e.matchCount)
           THEN [engine |-> [releaseStack(e, e.stackIndex + 1)
                               EXCEPT !.matchCount = 0,
                                      !.state = SEARCHING_START_PATTERN],
                 match |-> FALSE]
           ELSE findEndPattern_skipsMismatch([e EXCEPT !.matchCount = @ + 1,
                                                       !.stackIndex = @ + 1])
    ELSE [engine |-> [e EXCEPT !.matchCount = 0,
                               !.state = SEARCHING_START_PATTERN],
          match |-> TRUE]

\* findEndPattern(): the engine after the call and the returned boolean;
\* when the stack ends inside the pattern the method returns false early
RECURSIVE findEndPattern(_)
findEndPattern(e) ==
  IF e.matchCount < Len(options.endPattern)
    THEN IF e.stackIndex >= Len(e.stack)
           THEN [engine |-> e, match |-> FALSE]
         ELSE IF At(e.stack, e.stackIndex) # At(options.endPattern, e.matchCount)
           THEN [engine |-> [releaseStack(e, e.stackIndex)
                               EXCEPT !.matchCount = 0,
                                      !.state = SEARCHING_START_PATTERN],
                 match |-> FALSE]
           ELSE findEndPattern([e EXCEPT !.matchCount = @ + 1,
                                         !.stackIndex = @ + 1])
    ELSE [engine |-> [e EXCEPT !.matchCount = 0,
                               !.state = SEARCHING_START_PATTERN],
          match |-> TRUE]

\* getValueOfVariable without the throwOnUnmatchedTemplate check
getValueOfVariable_neverThrows(e, variableBuffer) ==
  LET variableName == trim(variableBuffer)
      returned == resolveVariable(variableName)
      value == IF returned.kind = "promise" THEN returned.value ELSE returned
      called == [e EXCEPT !.calls = Append(@, variableName)]
  IN [engine |-> called, value |-> value]

\* getValueOfVariable(variableBuffer): the engine after the call (the call is
\* recorded, a throw sets error) and the value the async method resolves to
\* (a returned promise is awaited)
getValueOfVariable(e, variableBuffer) ==
  LET variableName == trim(variableBuffer)
      returned == resolveVariable(variableName)
      value == IF returned.kind = "promise" THEN returned.value ELSE returned
      called == [e EXCEPT !.calls = Append(@, variableName)]
  IN IF value = Undefined
       THEN IF options.throwOnUnmatchedTemplate
              THEN [engine |-> [called EXCEPT !.error =
                                  [kind |-> "UnresolvedVariable",
                                   name |-> variableName]],
                    value |-> Undefined]
              ELSE [engine |-> called, value |-> Undefined]
       ELSE [engine |-> called, value |-> value]

\* a writeToOutput that puts the value in front of the input still to scan
writeToOutput_ontoStack(e, value) ==
  [e EXCEPT !.stack = (IF value.kind = "stream" THEN Concat(value.chunks)
                       ELSE value.bytes) \o @]

\* writeToOutput(stringSource) run to its end: a string or Buffer is pushed,
\* the chunks of a Readable are pushed one after the other
writeToOutput(e, value) ==
  [e EXCEPT !.out = @ \o (IF value.kind = "stream" THEN Concat(value.chunks)
                           ELSE value.bytes)]

\* the SEARCHING_END_PATTERN case with the else branch dropping the template
\* string instead of writing it
searchingEndPattern_dropsUnmatched(e) ==
  LET found == findEndPattern(e)
      f == found.engine
  IN IF ~found.match THEN f
     ELSE LET variableNameBuffer ==
                subarray(f.stack, Len(options.startPattern),
                         f.stackIndex - Len(options.endPattern))
              got == getValueOfVariable(f, variableNameBuffer)
              g == got.engine
              discarded ==
                [g EXCEPT !.back = @ \o subarray(g.stack, 0, g.stackIndex),
                          !.stack = subarray(g.stack, g.stackIndex,
                                             Len(g.stack)),
                          !.stackIndex = 0]
          IN IF g.error # NoError THEN g
             ELSE IF truthy(got.value)
               THEN writeToOutput(discarded, got.value)
               ELSE discarded

\* case State.SEARCHING_END_PATTERN of the loop in _transform
searchingEndPattern(e) ==
  LET found == findEndPattern(e)
      f == found.engine
  IN IF ~found.match THEN f
     ELSE LET variableNameBuffer ==
                subarray(f.stack, Len(options.startPattern),
                         f.stackIndex - Len(options.endPattern))
              got == getValueOfVariable(f, variableNameBuffer)
              g == got.engine
          IN IF g.error # NoError THEN g
             ELSE IF truthy(got.value)
               THEN writeToOutput(
                      [g EXCEPT !.back = @ \o subarray(g.stack, 0, g.stackIndex),
                                !.stack = subarray(g.stack, g.stackIndex,
                                                   Len(g.stack)),
                                !.stackIndex = 0],
                      got.value)
               ELSE releaseStack(g, g.stackIndex)

\* the SEARCHING_START_PATTERN case without the release of the bytes in front
\* of the match attempt
searchingStartPattern_keepsStack(e) == findStartPattern(e)

\* case State.SEARCHING_START_PATTERN of the loop in _transform
searchingStartPattern(e) ==
  LET f == findStartPattern(e)
  IN releaseStack(f, f.stackIndex - f.matchCount)

\* one iteration of the while loop in _transform
loopBody(e) ==
  CASE e.state = SEARCHING_START_PATTERN -> searchingStartPattern(e)
    [] e.state = PROCESSING_VARIABLE -> findVariableEnd(e)
    [] e.state = SEARCHING_END_PATTERN -> searchingEndPattern(e)

\* _flush that ends the stream without pushing the rest of the stack
flush_dropsStack(e) == e

\* _flush(callback)
flush(e) ==
  IF Len(e.stack) > 0
    THEN [e EXCEPT !.out = @ \o e.stack, !.back = @ \o e.stack]
    ELSE e

\* ----------------------------------------------------------------- actions
\* the stream object right after the constructor
newStream ==
  [ stack |-> <<>>, state |-> SEARCHING_START_PATTERN, matchCount |-> 0,
    stackIndex |-> 0, out |-> <<>>, error |-> NoError, back |-> <<>>,
    calls |-> <<>> ]

Commit(e) ==
  /\ stack' = e.stack
  /\ state' = e.state
  /\ matchCount' = e.matchCount
  /\ stackIndex' = e.stackIndex
  /\ out' = e.out
  /\ error' = e.error
  /\ back' = e.back
  /\ calls' = e.calls

\* the fields of a constructed stream; nothing is awaited or forwarded
Constructed ==
  /\ stack = <<>>
  /\ state = SEARCHING_START_PATTERN
  /\ matchCount = 0
  /\ stackIndex = 0
  /\ out = <<>>
  /\ error = NoError
  /\ pc = "idle"
  /\ ingested = <<>>
  /\ back = <<>>
  /\ calls = <<>>
  /\ awaiting = Undefined
  /\ source = <<>>
  /\ accepted = TRUE
  /\ needDrain = FALSE
  /\ suspended = newStream
  /\ upstream = "open"

Init ==
  /\ Constructed
  /\ options \in OptionsSet
  /\ [startPattern |-> options.startPattern,
      endPattern |-> options.endPattern] \in PatternPairs
  /\ resolver \in Resolvers

\* the chunks the upstream producer may deliver next: every Buffer that keeps
\* the input within MaxLen bytes
Chunks == UNION {[1..n -> Byte] : n \in 1..(MaxLen - Len(ingested))}

\* _transform is entered with a Buffer chunk: the chunk joins the stack
TransformEntered(chunk) ==
  /\ pc = "idle"
  /\ Len(ingested) + Len(chunk) <= MaxLen
  /\ stack' = IF Len(stack) = 0 THEN chunk ELSE stack \o chunk
  /\ ingested' = ingested \o chunk
  /\ pc' = "loop"
  /\ UNCHANGED <<state, matchCount, stackIndex, options, resolver, upstream,
                 out, error, back, calls, awaiting, source, accepted, suspended>>

Transform(chunk) == TransformEntered(chunk) /\ UNCHANGED needDrain

\* the SEARCHING_END_PATTERN case is about to verify a complete end pattern
\* and the resolver returns a Promise or a Readable for the name, or throws
\* (getValueOfVariable then returns a rejected promise): the loop does not go
\* on in the same tick
suspends(e) ==
  /\ e.state = SEARCHING_END_PATTERN
  /\ LET found == findEndPattern(e)
         f == found.engine
     IN /\ found.match
        /\ resolveVariable(
             trim(subarray(f.stack, Len(options.startPattern),
                           f.stackIndex - Len(options.endPattern)))).kind
             \in {"promise", "stream", "throws"}

\* one iteration of the while loop; a throw ends _transform with callback(e)
LoopIteration(s) ==
  /\ pc = "loop"
  /\ stackIndex < Len(stack)
  /\ state = s
  /\ matchCount <= MaxMatchCount
  /\ Len(calls) < MaxCalls
  /\ ~suspends(This)
  /\ \E e \in {loopBody(This)} :
       /\ Commit(e)
       /\ pc' = IF e.error # NoError THEN "failed" ELSE "loop"
  /\ UNCHANGED <<options, resolver, upstream, ingested, asyncVars, suspended>>

SearchingStartPattern == LoopIteration(SEARCHING_START_PATTERN)
ProcessingVariable == LoopIteration(PROCESSING_VARIABLE)
SearchingEndPattern == LoopIteration(SEARCHING_END_PATTERN)

\* the while condition is false: _transform ends with callback()
TransformDone ==
  /\ pc = "loop"
  /\ stackIndex >= Len(stack)
  /\ pc' = "idle"
  /\ UNCHANGED <<stack, state, matchCount, stackIndex, options, resolver,
                 upstream, out, error, ingested, back, calls, asyncVars, suspended>>

\* the input ended after the last successful _transform: _flush runs
Flush ==
  /\ pc = "idle"
  /\ Commit(flush(This))
  /\ pc' = "done"
  /\ UNCHANGED <<options, resolver, upstream, ingested, asyncVars, suspended>>

Next ==
  \/ \E chunk \in Chunks : Transform(chunk)
  \/ SearchingStartPattern
  \/ ProcessingVariable
  \/ SearchingEndPattern
  \/ TransformDone
  \/ Flush

Spec == Init /\ [][Next]_vars

\* the JavaScript code of a running _transform goes on until it calls the
\* callback: every loop iteration and the end of the loop are taken
RunToCallback ==
  \/ SearchingStartPattern
  \/ ProcessingVariable
  \/ SearchingEndPattern
  \/ TransformDone

\* ----------------------------------------------- repeated-prefix patterns
\* a start pattern whose first byte is repeated inside it
PrefixOptions ==
  [ startPattern : {<<"{", "{", "a">>},
    endPattern : {<<"}">>},
    maxVariableNameLength : {4},
    throwOnUnmatchedTemplate : BOOLEAN ]

InitPrefix ==
  /\ Constructed
  /\ options \in PrefixOptions
  /\ resolver \in Resolvers

SpecPrefix == InitPrefix /\ [][Next]_vars

\* ---------------------------------------------------- identical delimiters
\* options as in the README generator: the end pattern is the start pattern
IdenticalPairs ==
  { [startPattern |-> <<"{">>, endPattern |-> <<"{">>],
    [startPattern |-> <<"{", "{">>, endPattern |-> <<"{", "{">>] }

\* the pattern pairs of Init and the identical ones
InitIdentical ==
  /\ Constructed
  /\ \E p \in PatternPairs \cup IdenticalPairs :
       options = [startPattern |-> p.startPattern,
                  endPattern |-> p.endPattern,
                  maxVariableNameLength |-> 4,
                  throwOnUnmatchedTemplate |-> FALSE]
  /\ resolver \in Resolvers

SpecIdentical == InitIdentical /\ [][Next]_vars

\* ------------------------------------------------------ one-shot operation
\* the while loop of _transform run to its end; a loop that repeats an engine
\* state it has been in, or leaves the explored range of the counters, never
\* ends and is reported as hung
RECURSIVE whileLoop(_, _)
whileLoop(e, seen) ==
  IF e.error # NoError THEN [engine |-> e, status |-> "failed"]
  ELSE IF e.stackIndex >= Len(e.stack) THEN [engine |-> e, status |-> "idle"]
  ELSE IF \/ e.matchCount > MaxMatchCount
          \/ Len(e.calls) >= MaxCalls
          \/ e \in seen
    THEN [engine |-> e, status |-> "hung"]
  ELSE whileLoop(loopBody(e), seen \cup {e})

transformLoop(e) == whileLoop(e, {})

\* a one-shot operation that does not wait for the end of the stream
replaceAsync_withoutFlush(input) ==
  LET t == IF Len(input) = 0 THEN [engine |-> newStream, status |-> "idle"]
           ELSE transformLoop([newStream EXCEPT !.stack = input])
  IN [status |-> IF t.status = "idle" THEN "done" ELSE t.status,
      out |-> t.engine.out, error |-> t.engine.error]

\* replaceAsync(input, variables, options) for a Buffer input: stream.end(input)
\* writes the input as one chunk and ends the stream; the result collects
\* every pushed chunk
replaceAsync(input) ==
  LET t == IF Len(input) = 0 THEN [engine |-> newStream, status |-> "idle"]
           ELSE transformLoop([newStream EXCEPT !.stack = input])
  IN IF t.status = "idle"
       THEN [status |-> "done", out |-> flush(t.engine).out,
             error |-> NoError]
       ELSE [status |-> t.status, out |-> t.engine.out,
             error |-> t.engine.error]

\* Buffer.toString(): the UTF-16 code unit of every byte (all bytes are ASCII)
CodeUnit ==
  ("{" :> 123) @@ ("}" :> 125) @@ ("a" :> 97) @@ (" " :> 32) @@
  ("S" :> 83) @@ ("T" :> 84) @@ ("U" :> 85) @@ ("V" :> 86)

toString(buffer) == [i \in 1..Len(buffer) |-> CodeUnit[buffer[i]]]

\* replaceStringAsync(input, variables, options)
replaceStringAsync(input) ==
  LET r == replaceAsync(input)
  IN [status |-> r.status, text |-> toString(r.out), error |-> r.error]

\* stream.end(input) of replaceAsync: the input is written to the new stream
\* as its only chunk
End(input) ==
  /\ ingested = <<>>
  /\ Transform(input)

\* the stream replaceAsync creates: one write, then the end of the input; an
\* empty input ends the stream at once
NextOneShot ==
  \/ \E input \in Chunks : End(input)
  \/ RunToCallback
  \/ Flush

SpecOneShot == Init /\ [][NextOneShot]_vars

\* a Map that knows the name a only
SingleMap == [n \in {<<"a">>} |-> StringValue(<<"V">>)]

\* the default patterns, both policies, the Map with one name
InitReplace ==
  /\ Constructed
  /\ options \in OptionsSet
  /\ options.startPattern = <<"{", "{">>
  /\ options.endPattern = <<"}", "}">>
  /\ options.maxVariableNameLength = 4
  /\ resolver = SingleMap

\* the Buffer inputs of replaceAsync of at most MaxInputLen bytes
Inputs == UNION {[1..n -> Byte] : n \in 0..MaxInputLen}

\* a call of replaceAsync(input, variables, options) up to the settlement of
\* its promise; it stays inside _transform when the loop does not end
ReplaceAsync(input) ==
  /\ pc = "idle"
  /\ ingested = <<>>
  /\ input # <<>>
  /\ LET r == replaceAsync(input)
     IN /\ out' = r.out
        /\ error' = r.error
        /\ pc' = IF r.status = "hung" THEN "loop" ELSE r.status
  /\ ingested' = input
  /\ UNCHANGED <<stack, state, matchCount, stackIndex, options, resolver,
                 upstream, back, calls, asyncVars, suspended>>

NextReplace == \E input \in Inputs : ReplaceAsync(input)

SpecReplace == InitReplace /\ [][NextReplace]_vars

TypeOK ==
  /\ state \in {SEARCHING_START_PATTERN, PROCESSING_VARIABLE,
               SEARCHING_END_PATTERN, "undefined"}
  /\ pc \in {"new", "invalid", "idle", "loop", "awaitValue", "forward",
            "awaitDrain", "failed", "done"}
  /\ matchCount \in Int
  /\ stackIndex \in Int

\* ------------------------------------------------------------ construction
\* the options a caller may hand to the constructor, invalid ones included
ConstructorOptions ==
  [ startPattern : {<<>>, <<"{", "{">>},
    endPattern : {<<>>, <<"}", "}">>},
    maxVariableNameLength : {-1, 0, 4},
    throwOnUnmatchedTemplate : {FALSE} ]

ConfigurationError == [kind |-> "InvalidConfiguration", name |-> <<>>]

\* a constructor that does not look at the end pattern
constructor_ignoresEndPattern(opts) ==
  IF opts.maxVariableNameLength <= 0 \/ Len(opts.startPattern) = 0
    THEN [error |-> ConfigurationError]
    ELSE [error |-> NoError, stream |-> newStream]

\* constructor(variables, options): the checks throw before super() is called
\* and before the field initialisers run
constructor(opts) ==
  IF opts.maxVariableNameLength <= 0 THEN [error |-> ConfigurationError]
  ELSE IF Len(opts.startPattern) = 0 THEN [error |-> ConfigurationError]
  ELSE IF Len(opts.endPattern) = 0 THEN [error |-> ConfigurationError]
  ELSE [error |-> NoError, stream |-> newStream]

\* before `new TemplateReplaceStream(...)` returns there is no object: the
\* fields hold no value (shown as "undefined", <<"undefined">> and -1)
InitNew ==
  /\ stack = <<"undefined">>
  /\ state = "undefined"
  /\ matchCount = -1
  /\ stackIndex = -1
  /\ options \in ConstructorOptions
  /\ resolver = VariableMap
  /\ out = <<>>
  /\ error = NoError
  /\ pc = "new"
  /\ ingested = <<>>
  /\ back = <<>>
  /\ calls = <<>>
  /\ awaiting = Undefined
  /\ source = <<>>
  /\ accepted = TRUE
  /\ needDrain = FALSE
  /\ suspended = newStream
  /\ upstream = "open"

\* `new TemplateReplaceStream(variables, options)`
Construct ==
  /\ pc = "new"
  /\ LET r == constructor(options)
     IN IF r.error # NoError
          THEN /\ error' = r.error
               /\ pc' = "invalid"
               /\ UNCHANGED <<stack, state, matchCount, stackIndex, out, back,
                              calls>>
          ELSE /\ Commit(r.stream)
               /\ pc' = "idle"
  /\ UNCHANGED <<options, resolver, upstream, ingested, asyncVars, suspended>>

NextNew == Construct \/ Next

SpecNew == InitNew /\ [][NextNew]_vars

\* ----------------------------------------------------------- object chunks
\* a chunk that is neither a string nor a Buffer (object mode)
ObjectChunk == "object"

UnsupportedChunkType == [kind |-> "UnsupportedChunkType", name |-> <<>>]

\* a handler that pushes the chunk before it looks at the policy
handleUnknownChunkType_pushesFirst(e, chunk) ==
  IF options.throwOnUnmatchedTemplate
    THEN [e EXCEPT !.out = Append(@, chunk), !.error = UnsupportedChunkType]
    ELSE [e EXCEPT !.out = Append(@, chunk), !.back = Append(@, chunk)]

\* handleUnknownChunkType(chunk)
handleUnknownChunkType(e, chunk) ==
  IF options.throwOnUnmatchedTemplate
    THEN [e EXCEPT !.error = UnsupportedChunkType]
    ELSE [e EXCEPT !.out = Append(@, chunk), !.back = Append(@, chunk)]

\* the default patterns, both policies
InitObject ==
  /\ Init
  /\ options.startPattern = <<"{", "{">>
  /\ options.maxVariableNameLength = 4

\* _transform is entered with a chunk that is not a Buffer: the else branch
\* runs and _transform ends with callback() or callback(e)
TransformObject ==
  /\ pc = "idle"
  /\ Len(ingested) + 1 <= MaxLen
  /\ LET e == handleUnknownChunkType(This, ObjectChunk)
     IN /\ Commit(e)
        /\ pc' = IF e.error # NoError THEN "failed" ELSE "idle"
  /\ ingested' = Append(ingested, ObjectChunk)
  /\ UNCHANGED <<options, resolver, upstream, asyncVars, suspended>>

NextObject == TransformObject \/ Next

SpecObject == InitObject /\ [][NextObject]_vars

\* a write of at most MaxLiveLen chunks and bytes in all
TransformLive(chunk) ==
  /\ Len(ingested) + Len(chunk) <= MaxLiveLen
  /\ Transform(chunk)

TransformObjectLive ==
  /\ Len(ingested) < MaxLiveLen
  /\ TransformObject

NextLive ==
  \/ \E chunk \in Chunks : TransformLive(chunk)
  \/ TransformObjectLive
  \/ RunToCallback
  \/ Flush

\* a _transform that has begun is run by the event loop until it calls back
SpecLive == Init /\ [][NextLive]_vars /\ WF_vars(RunToCallback)

\* ------------------------------------- replaceAsync with a Readable input
\* input.pipe(stream): a 'data' event of the input writes its chunk
PipeData(chunk) ==
  /\ upstream = "open"
  /\ TransformLive(chunk)

\* the 'end' event of the input: pipe() ends the stream
PipeEnd ==
  /\ upstream = "open"
  /\ Flush

\* the input emits 'error' between two chunks: pipe() listens for errors of
\* the destination only, the stream is neither ended nor destroyed and the
\* for-await loop of replaceAsync keeps waiting for it
PipeError ==
  /\ upstream = "open"
  /\ pc = "idle"
  /\ upstream' = "failed"
  /\ UNCHANGED <<stack, state, matchCount, stackIndex, options, resolver, out,
                 error, pc, ingested, back, calls, asyncVars, suspended>>

NextPipe ==
  \/ \E chunk \in Chunks : PipeData(chunk)
  \/ PipeEnd
  \/ PipeError
  \/ RunToCallback

SpecPipe == Init /\ [][NextPipe]_vars /\ WF_vars(RunToCallback)

\* -------------------------------------------- promise and stream values
\* resolvers whose value for "a" is a promise of a string, a Readable of two
\* chunks, and a string that is itself a placeholder
PromiseMap == [n \in {<<"a">>} |-> PromiseValue(StringValue(<<"V">>))]
StreamMap == [n \in {<<"a">>} |-> StreamValue(<< <<"S">>, <<"T", "U">> >>)]
PatternValueMap(opts) ==
  [n \in {<<"a">>} |->
     StringValue(opts.startPattern \o <<"a">> \o opts.endPattern)]

\* both pattern pairs, the lenient policy, one of the three resolvers
InitValues ==
  /\ Constructed
  /\ options \in OptionsSet
  /\ [startPattern |-> options.startPattern,
      endPattern |-> options.endPattern] \in PatternPairs
  /\ options.maxVariableNameLength = 4
  /\ ~options.throwOnUnmatchedTemplate
  /\ resolver \in {PromiseMap, StreamMap, PatternValueMap(options)}

\* upstream calls write(chunk) on the idle stream and _transform is entered
\* with the chunk; write returns false when the chunk fills the writable
\* buffer up to the high water mark
Write(chunk) ==
  /\ TransformEntered(chunk)
  /\ needDrain' = (needDrain \/ Len(chunk) >= HighWaterMark)

\* the SEARCHING_END_PATTERN case up to the await: the end pattern is
\* verified and the resolver has been called
callResolver(e) ==
  LET f == findEndPattern(e).engine
      variableName ==
        trim(subarray(f.stack, Len(options.startPattern),
                      f.stackIndex - Len(options.endPattern)))
  IN [f EXCEPT !.calls = Append(@, variableName)]

\* the value the pending getValueOfVariable call will deliver
awaitedValue(e) ==
  LET returned == resolveVariable(e.calls[Len(e.calls)])
  IN IF returned.kind = "promise" THEN returned.value ELSE returned

\* a continuation that takes a failed resolver for an unknown variable
valueSettled_ignoresFailure(e, value) ==
  IF value.kind \in {"throws", "rejected"} \/ ~truthy(value)
    THEN releaseStack(e, e.stackIndex)
  ELSE LET discarded ==
             [e EXCEPT !.back = @ \o subarray(e.stack, 0, e.stackIndex),
                       !.stack = subarray(e.stack, e.stackIndex,
                                          Len(e.stack)),
                       !.stackIndex = 0]
       IN IF value.kind = "stream" THEN discarded
          ELSE [discarded EXCEPT !.out = @ \o value.bytes]

\* a continuation that pushes the value and then releases the template string
valueSettled_releasesTemplate(e, value) ==
  releaseStack(writeToOutput(e, value), e.stackIndex)

\* the SEARCHING_END_PATTERN case behind the await, up to the first pull from
\* a Readable value: the undefined check of getValueOfVariable, then the
\* template string is discarded and a string or Buffer is pushed, or the
\* template string is released
valueSettled(e, value) ==
  IF value.kind \in {"throws", "rejected"}
    THEN [e EXCEPT !.error = callbackError(value.error)]
  ELSE IF value = Undefined /\ options.throwOnUnmatchedTemplate
    THEN [e EXCEPT !.error = [kind |-> "UnresolvedVariable",
                              name |-> e.calls[Len(e.calls)]]]
  ELSE IF truthy(value)
    THEN LET discarded ==
               [e EXCEPT !.back = @ \o subarray(e.stack, 0, e.stackIndex),
                         !.stack = subarray(e.stack, e.stackIndex,
                                            Len(e.stack)),
                         !.stackIndex = 0]
         IN IF value.kind = "stream" THEN discarded
            ELSE [discarded EXCEPT !.out = @ \o value.bytes]
  ELSE releaseStack(e, e.stackIndex)

\* a forwarding loop that pushes a refused chunk a second time
forwardChunk_repushesRefused(e, chunk, pushed) ==
  [e EXCEPT !.out = IF pushed THEN @ \o chunk ELSE @ \o chunk \o chunk]

\* this.push(chunk) in writeStreamToOutput: the chunk is in the output,
\* whatever push returns
forwardChunk(e, chunk, pushed) == [e EXCEPT !.out = @ \o chunk]

\* a forwarding loop that does not look at what push returned
forwardPosition_ignoresPush(pushed, rest) ==
  IF rest = <<>> THEN "loop" ELSE "forward"

\* where writeStreamToOutput goes on after a push: it waits for 'drain' when
\* push returned false, else it pulls the next chunk or returns to the loop
forwardPosition(pushed, rest) ==
  IF ~pushed THEN "awaitDrain"
  ELSE IF rest = <<>> THEN "loop" ELSE "forward"

\* what the async iterator of a Readable delivers: its chunks, then the
\* failure if it fails
StreamFailed == <<"error">>

yields(value) ==
  IF "error" \in DOMAIN value THEN Append(value.chunks, StreamFailed)
  ELSE value.chunks

\* _transform reaches `await this.getValueOfVariable(...)` with a promise or
\* a Readable as value
AwaitValue ==
  /\ pc = "loop"
  /\ stackIndex < Len(stack)
  /\ matchCount <= MaxMatchCount
  /\ Len(calls) < MaxCalls
  /\ suspends(This)
  /\ LET e == callResolver(This)
     IN /\ Commit(e)
        /\ awaiting' = awaitedValue(e)
  /\ pc' = "awaitValue"
  /\ suspended' = This
  /\ UNCHANGED <<options, resolver, upstream, ingested, source, accepted,
                 needDrain>>

\* a _transform that starts forwarding a Readable value and calls back
\* without waiting for the end of the forwarding
ValueSettled_callsBackEarly ==
  /\ pc = "awaitValue"
  /\ LET e == valueSettled(This, awaiting)
     IN /\ Commit(e)
        /\ IF e.error # NoError
             THEN pc' = "failed" /\ source' = <<>>
           ELSE IF awaiting.kind = "stream" /\ yields(awaiting) # <<>>
             THEN pc' = "idle" /\ source' = yields(awaiting)
           ELSE pc' = "loop" /\ source' = <<>>
  /\ suspended' = newStream
  /\ awaiting' = Undefined
  /\ UNCHANGED <<options, resolver, upstream, ingested, accepted, needDrain>>

\* the awaited value is delivered and _transform goes on
ValueSettled ==
  /\ pc = "awaitValue"
  /\ LET e == valueSettled(This, awaiting)
     IN /\ Commit(e)
        /\ IF e.error # NoError
             THEN pc' = "failed" /\ source' = <<>>
           ELSE IF awaiting.kind = "stream" /\ yields(awaiting) # <<>>
             THEN pc' = "forward" /\ source' = yields(awaiting)
           ELSE pc' = "loop" /\ source' = <<>>
  /\ suspended' = IF pc' = "forward" THEN suspended ELSE newStream
  /\ awaiting' = Undefined
  /\ UNCHANGED <<options, resolver, upstream, ingested, accepted, needDrain>>

\* one round of the for-await loop of writeStreamToOutput: the next chunk of
\* the Readable is pushed; what push returns depends on the consumer
ForwardChunk ==
  /\ pc = "forward"
  /\ Head(source) # StreamFailed
  /\ \E pushed \in BOOLEAN :
       /\ Commit(forwardChunk(This, Head(source), pushed))
       /\ accepted' = pushed
       /\ pc' = forwardPosition(pushed, Tail(source))
  /\ source' = Tail(source)
  /\ suspended' = IF pc' = "loop" THEN newStream ELSE suspended
  /\ UNCHANGED <<options, resolver, upstream, ingested, awaiting, needDrain>>

\* the for-await loop of writeStreamToOutput throws what the Readable failed
\* with: the catch block of _transform ends it with callback(e)
ForwardFails ==
  /\ pc = "forward"
  /\ Head(source) = StreamFailed
  /\ error' = callbackError(resolveVariable(calls[Len(calls)]).error)
  /\ pc' = "failed"
  /\ source' = <<>>
  /\ suspended' = newStream
  /\ UNCHANGED <<stack, state, matchCount, stackIndex, options, resolver,
                 upstream, out, ingested, back, calls, awaiting, accepted,
                 needDrain>>

\* a chunk handed to _transform stays in the writable buffer until its
\* callback is called
transforming == pc \in {"loop", "awaitValue", "forward", "awaitDrain"}

\* the Writable emits 'drain': a write() had returned false and the writable
\* buffer is empty again; a _transform waiting in once(this, "drain") goes on
Drain ==
  /\ needDrain
  /\ ~transforming
  /\ needDrain' = FALSE
  /\ accepted' = TRUE
  /\ pc' = IF pc # "awaitDrain" THEN pc
           ELSE IF source = <<>> THEN "loop" ELSE "forward"
  /\ suspended' = IF pc' = "loop" THEN newStream ELSE suspended
  /\ UNCHANGED <<stack, state, matchCount, stackIndex, options, resolver,
                 upstream, out, error, ingested, back, calls, awaiting, source>>

NextValues ==
  \/ \E chunk \in Chunks : Write(chunk)
  \/ SearchingStartPattern
  \/ ProcessingVariable
  \/ SearchingEndPattern
  \/ AwaitValue
  \/ ValueSettled
  \/ ForwardChunk
  \/ Drain
  \/ TransformDone
  \/ Flush

SpecValues == InitValues /\ [][NextValues]_vars

\* ------------------------------------------------------- failing resolvers
\* resolvers that fail for the name a: by a throw, by a Promise that
\* rejects, by a Readable that fails after its first chunk
FailingResolvers ==
  UNION { { [n \in {<<"a">>} |-> Thrown(err)],
            [n \in {<<"a">>} |-> PromiseValue(Rejected(err))],
            [n \in {<<"a">>} |-> FailingStream(<< <<"S">> >>, err)] }
          : err \in {ResolverError, ThrownString} }

InitFailures ==
  /\ Constructed
  /\ options \in OptionsSet
  /\ [startPattern |-> options.startPattern,
      endPattern |-> options.endPattern] \in PatternPairs
  /\ options.maxVariableNameLength = 4
  /\ resolver \in FailingResolvers

NextFailures ==
  \/ NextValues
  \/ ForwardFails

SpecFailures == InitFailures /\ [][NextFailures]_vars

\* ------------------------------------------------- a consumer that drains
\* the consumer reads the output: the readable buffer is below its high
\* water mark again and push would return true
ConsumerReads ==
  /\ ~accepted
  /\ accepted' = TRUE
  /\ UNCHANGED <<stack, state, matchCount, stackIndex, options, resolver,
                 upstream, out, error, pc, ingested, back, calls, awaiting,
                 source, needDrain, suspended>>

\* an upstream producer that respects backpressure: it writes until write()
\* returns false and then waits for 'drain'
WriteUntilFull(chunk) ==
  /\ ~needDrain
  /\ Len(ingested) + Len(chunk) <= HighWaterMark
  /\ Write(chunk)

\* the one-byte patterns, the lenient policy, Readable values
InitDrain ==
  /\ InitValues
  /\ options.startPattern = <<"{">>
  /\ resolver = StreamMap

\* the steps of a _transform that has been entered
RunTransform ==
  \/ RunToCallback
  \/ AwaitValue
  \/ ValueSettled
  \/ ForwardChunk

NextDrain ==
  \/ \E chunk \in Chunks : WriteUntilFull(chunk)
  \/ RunTransform
  \/ Drain
  \/ ConsumerReads
  \/ Flush

\* the event loop runs every pending continuation and emits every due
\* event, and the consumer keeps reading
SpecDrain ==
  /\ InitDrain
  /\ [][NextDrain]_vars
  /\ WF_vars(RunTransform)
  /\ WF_vars(Drain)
  /\ WF_vars(ConsumerReads)

\* ------------------------------------------------------------------ claims
StartsWith(s, p) == Len(s) >= Len(p) /\ SubSeq(s, 1, Len(p)) = p

SP == options.startPattern
EP == options.endPattern
strict == options.throwOnUnmatchedTemplate

\* every input of at most MaxLen bytes that begins with the bytes received
Extensions(prefix) ==
  {prefix} \cup
  UNION {{prefix \o x : x \in [1..n -> Byte]} : n \in 1..(MaxLen - Len(prefix))}

\* C1: chunk-boundary invariance - the outcome of a run is the same for every
\* way of splitting the input into chunks: a finished run has the output of
\* the same input delivered as one chunk, and a run that failed after a
\* prefix of the input fails the same way, with the same output, when the
\* whole input is delivered as one chunk
C1_ChunkInvariance ==
  /\ pc = "done" =>
        LET r == replaceAsync(ingested)
        IN r.status = "done" /\ r.out = out
  /\ pc = "failed" =>
        \A input \in Extensions(ingested) :
          LET r == replaceAsync(input)
          IN r.status = "failed" /\ r.error = error /\ r.out = out

\* the length of the longest prefix of s free of the first bytes of both
\* patterns
RECURSIVE NameLength(_)
NameLength(s) ==
  IF s = <<>> \/ Head(s) \in {SP[1], EP[1]} THEN 0 ELSE 1 + NameLength(Tail(s))

\* an input of the form L0 P1 L1 ... Pn Ln (literals free of the first byte of
\* the start pattern, every Pi a start pattern, a known name free of the first
\* bytes of both patterns and an end pattern, Pi shorter than the maximum
\* variable name length) and the output L0 v1 L1 ... vn Ln expected for it
RECURSIVE Sequential(_)
Sequential(s) ==
  LET i == indexOf(s, SP[1], 0)
  IN IF i = -1 THEN [ok |-> TRUE, out |-> s]
     ELSE LET literal == SubSeq(s, 1, i)
              after == SubSeq(s, i + 1 + Len(SP), Len(s))
              n == NameLength(after)
              name == SubSeq(after, 1, n)
              rest == SubSeq(after, n + 1 + Len(EP), Len(after))
              value == resolveVariable(trim(name))
          IN IF /\ StartsWith(SubSeq(s, i + 1, Len(s)), SP)
                /\ StartsWith(SubSeq(after, n + 1, Len(after)), EP)
                /\ value # Undefined
                /\ Len(SP) + n + Len(EP) < options.maxVariableNameLength
               THEN [ok |-> Sequential(rest).ok,
                     out |-> literal \o value.bytes \o Sequential(rest).out]
               ELSE [ok |-> FALSE, out |-> <<>>]

\* C2: sequential replacement - a finished run over an input L0 P1 L1 ... Pn Ln
\* has the output L0 v1 L1 ... vn Ln, for every chunking
C2_SequentialReplacement ==
  (pc = "done" /\ Sequential(ingested).ok) => out = Sequential(ingested).out

\* no complete start pattern occurs in s
NoStartPattern(s) ==
  \A i \in 1..Len(s) : ~StartsWith(SubSeq(s, i, Len(s)), SP)

\* C3: identity - an input without a complete start pattern never fails, never
\* reaches the resolver, is held or pushed in order between chunks and is
\* output unchanged after finish, for every chunking
C3_Identity ==
  NoStartPattern(ingested) =>
    /\ pc # "failed"
    /\ calls = <<>>
    /\ pc = "idle" => out \o stack = ingested
    /\ pc = "done" => out = ingested

C3_Witness ==
  /\ pc = "done"
  /\ NoStartPattern(ingested)
  /\ out = ingested
  /\ Len(ingested) >= 4
  /\ Len(SP) = 2
  /\ \E i \in 1..(Len(ingested) - 1) : ingested[i] = SP[1]
  /\ ingested[Len(ingested)] = SP[1]

\* the loop is about to verify an end pattern that is completely in the stack
\* behind a start pattern at the head of the stack: CompletedEnd is the index
\* just past the placeholder
CompletedEnd == stackIndex + Len(EP) - matchCount

CompletedPlaceholder ==
  /\ pc = "loop"
  /\ state = SEARCHING_END_PATTERN
  /\ stackIndex < Len(stack)
  /\ matchCount >= 1
  /\ CompletedEnd <= Len(stack)
  /\ CompletedEnd >= Len(SP) + Len(EP)
  /\ StartsWith(stack, SP)
  /\ SubSeq(stack, CompletedEnd - Len(EP) + 1, CompletedEnd) = EP

RawName == SubSeq(stack, Len(SP) + 1, CompletedEnd - Len(EP))
Placeholder == SubSeq(stack, 1, CompletedEnd)
AfterPlaceholder == SubSeq(stack, CompletedEnd + 1, Len(stack))

\* C4: lenient pass-through - under the lenient policy a completed placeholder
\* whose trimmed name the resolver does not know is pushed verbatim (start
\* pattern, raw name, end pattern) and matching resumes at the first byte
\* behind it, in SEARCHING_START with counter 0
C4_LenientPassThrough ==
  [][(CompletedPlaceholder /\ ~strict /\ resolveVariable(trim(RawName)) = Undefined)
       => /\ out' = out \o SP \o RawName \o EP
          /\ stack' = AfterPlaceholder
          /\ stackIndex' = 0
          /\ matchCount' = 0
          /\ state' = SEARCHING_START_PATTERN
          /\ calls' = Append(calls, trim(RawName))
          /\ pc' = "loop"]_vars

C4_Witness ==
  /\ pc = "done"
  /\ ~strict
  /\ calls = << <<>> >>
  /\ ingested = SP \o <<" ">> \o EP \o <<"a">>
  /\ out = ingested

C6_ValueReplacesPlaceholder ==
  [][(CompletedPlaceholder /\ resolveVariable(trim(RawName)) # Undefined)
       => /\ out' = out \o resolveVariable(trim(RawName)).bytes
          /\ stack' = AfterPlaceholder]_vars

\* C7: over-length names are ignored - the resolver is never called for a
\* placeholder whose name is longer than maxVariableNameLength
C7_OverLengthIgnored ==
  [][(CompletedPlaceholder /\ Len(RawName) > options.maxVariableNameLength)
       => calls' = calls]_vars

\* findVariableEnd is about to scan a stack without a first byte of either
\* pattern behind the cursor
ScanWithoutPatternByte ==
  /\ pc = "loop"
  /\ state = PROCESSING_VARIABLE
  /\ stackIndex < Len(stack)
  /\ indexOf(stack, EP[1], stackIndex) = -1
  /\ indexOf(stack, SP[1], stackIndex) = -1

\* the name bytes received behind the start pattern at the head of the stack
ScannedName == Len(stack) - Len(SP)

\* C8: names within the limit are never abandoned - the length limit gives up
\* an attempt (back to SEARCHING_START, by release or by error) only when more
\* than maxVariableNameLength name bytes were received
C8_WithinLimitNotAbandoned ==
  [][(ScanWithoutPatternByte /\ state' = SEARCHING_START_PATTERN)
       => ScannedName > options.maxVariableNameLength]_vars

\* C9: lenient abandonment - under the lenient policy, when more than
\* maxVariableNameLength name bytes were scanned without a first byte of either
\* pattern, the scanned bytes are pushed once and the engine is back in
\* SEARCHING_START with an empty stack, cursor 0 and counter 0, ready for the
\* rest of the stream
C9_LenientAbandonment ==
  [][(ScanWithoutPatternByte /\ ~strict
        /\ ScannedName > options.maxVariableNameLength)
       => /\ out' = out \o stack
          /\ stack' = <<>>
          /\ state' = SEARCHING_START_PATTERN
          /\ stackIndex' = 0
          /\ matchCount' = 0]_vars

\* C10: strict max-length failure - under the strict policy, when more than
\* maxVariableNameLength name bytes were scanned without a first byte of either
\* pattern, the stream fails with VariableNameTooLong; the open attempt is the
\* whole stack, stays there, and nothing is pushed
C10_StrictTooLong ==
  [][(ScanWithoutPatternByte /\ strict
        /\ ScannedName > options.maxVariableNameLength)
       => /\ pc' = "failed"
          /\ error' = [kind |-> "VariableNameTooLong", name |-> <<>>]
          /\ out' = out
          /\ stack' = stack
          /\ StartsWith(stack, SP)
          /\ back \o stack = ingested]_vars

C10_Witness ==
  /\ pc = "failed"
  /\ error.kind = "VariableNameTooLong"
  /\ ScannedName > options.maxVariableNameLength
  /\ StartsWith(stack, SP)
  /\ out = <<"a">>
  /\ ingested = out \o stack

\* t is raw without its leading and trailing whitespace: raw is t between two
\* runs of whitespace and t neither begins nor ends with whitespace
IsTrimOf(t, raw) ==
  /\ \E i \in 0..Len(raw) :
       /\ i + Len(t) <= Len(raw)
       /\ SubSeq(raw, i + 1, i + Len(t)) = t
       /\ \A k \in 1..Len(raw) : (k <= i \/ k > i + Len(t)) => raw[k] = " "
  /\ t # <<>> => (t[1] # " " /\ t[Len(t)] # " ")

\* C11: name trimming - for every completed placeholder the resolver is called
\* once, with exactly the bytes between the start pattern and the end pattern
\* without their leading and trailing whitespace
C11_NameTrimming ==
  [][CompletedPlaceholder
       => /\ Len(calls') = Len(calls) + 1
          /\ SubSeq(calls', 1, Len(calls)) = calls
          /\ IsTrimOf(calls'[Len(calls')], RawName)]_vars

C11_Witness ==
  /\ pc = "done"
  /\ Len(SP) = 1
  /\ ingested = SP \o <<"a", " ">> \o EP \o <<"a">>
  /\ calls = << <<"a">> >>
  /\ out = <<"V", "a">>

\* findVariableEnd is about to scan an open placeholder in which a complete
\* start pattern lies ahead of the cursor, before any first byte of the end
\* pattern: LaterStart is the 0-based index of that later occurrence
LaterStart == indexOf(stack, SP[1], stackIndex)

StartInsideOpenPlaceholder ==
  /\ pc = "loop"
  /\ state = PROCESSING_VARIABLE
  /\ stackIndex < Len(stack)
  /\ StartsWith(stack, SP)
  /\ LaterStart >= Len(SP)
  /\ StartsWith(SubSeq(stack, LaterStart + 1, Len(stack)), SP)
  /\ \A k \in (stackIndex + 1)..LaterStart : stack[k] # EP[1]

\* C14: overlapping patterns - when a start pattern occurs inside an open
\* placeholder before any first byte of the end pattern, the earlier attempt
\* is abandoned: the bytes up to the later occurrence are pushed as literal
\* output, the stack begins at the later occurrence, the resolver is not
\* called and the loop goes on in SEARCHING_START, for every chunking
C14_OverlappingStart ==
  [][StartInsideOpenPlaceholder
       => /\ out' = out \o SubSeq(stack, 1, LaterStart)
          /\ stack' = SubSeq(stack, LaterStart + 1, Len(stack))
          /\ state' = SEARCHING_START_PATTERN
          /\ calls' = calls
          /\ pc' = "loop"]_vars

\* the stack holds a complete placeholder at position i (0-based): a start
\* pattern, a name free of the first bytes of both patterns and a complete end
\* pattern
PlaceholderAt(s, i) ==
  LET after == SubSeq(s, i + 1 + Len(SP), Len(s))
      n == NameLength(after)
  IN /\ StartsWith(SubSeq(s, i + 1, Len(s)), SP)
     /\ StartsWith(SubSeq(after, n + 1, Len(after)), EP)

\* C15: flush holds no completed placeholder - whenever _transform has
\* returned without error, the stack contains no complete placeholder (start
\* pattern, name, full end pattern): every placeholder whose last end-pattern
\* byte was received has been handed to the resolver, for every chunking and
\* both pattern lengths
C15_FlushHoldsNoPlaceholder ==
  pc = "idle" => \A i \in 0..(Len(stack) - 1) : ~PlaceholderAt(stack, i)

\* the options the constructor must reject
InvalidOptions ==
  \/ Len(options.startPattern) = 0
  \/ Len(options.endPattern) = 0
  \/ options.maxVariableNameLength <= 0

\* C19: construction validation - constructing with an empty start pattern, an
\* empty end pattern or a maximum variable name length <= 0 fails with a
\* configuration error and yields no engine (no field is set, nothing can be
\* done afterwards); every other configuration yields an engine in
\* SEARCHING_START with an empty stack, cursor 0 and counter 0
C19_ConstructionValidation ==
  [][/\ (pc = "new" /\ InvalidOptions)
          => /\ pc' = "invalid"
             /\ error' = ConfigurationError
             /\ UNCHANGED <<stack, state, matchCount, stackIndex, out>>
     /\ (pc = "new" /\ ~InvalidOptions)
          => /\ pc' = "idle"
             /\ error' = NoError
             /\ state' = SEARCHING_START_PATTERN
             /\ stack' = <<>>
             /\ stackIndex' = 0
             /\ matchCount' = 0
             /\ out' = <<>>
     /\ pc = "invalid" => UNCHANGED vars
     /\ pc' = "idle" => ~InvalidOptions]_vars

C19_Witness ==
  /\ pc = "invalid"
  /\ options.maxVariableNameLength > 0
  /\ Len(options.startPattern) > 0
  /\ Len(options.endPattern) = 0
  /\ error = ConfigurationError
  /\ state = "undefined"

\* _transform receives a chunk that is not a Buffer
ObjectChunkStep == ingested' = Append(ingested, ObjectChunk)

\* C17: non-byte chunk policy - under the strict policy a chunk that is not
\* bytes fails the stream with UnsupportedChunkType and is not pushed; under
\* the lenient policy it is pushed unchanged, the stream stays usable and the
\* state, cursor, counter and stack are untouched
C17_NonByteChunk ==
  [][ObjectChunkStep
       => /\ UNCHANGED <<state, stackIndex, matchCount, stack, calls>>
          /\ strict => /\ pc' = "failed"
                       /\ error' = UnsupportedChunkType
                       /\ out' = out
          /\ ~strict => /\ pc' = "idle"
                        /\ error' = NoError
                        /\ out' = Append(out, ObjectChunk)]_vars

C17_Witness ==
  /\ ~strict
  /\ pc = "idle"
  /\ error = NoError
  /\ ingested = <<"{", "{", "a", ObjectChunk>>
  /\ stack = <<"{", "{", "a">>
  /\ state = PROCESSING_VARIABLE
  /\ out = <<ObjectChunk>>

\* C18: chunks are never reordered - every input byte received before a
\* forwarded object chunk is in the output before that chunk: the elements
\* that left the engine up to the object chunk are the input up to it
C18_ChunkOrder ==
  \A i \in 1..Len(back) :
    back[i] = ObjectChunk => SubSeq(back, 1, i) = SubSeq(ingested, 1, i)

\* the chunks of the Readable the resolver returned for the last name
LastStream == resolveVariable(calls[Len(calls)]).chunks

C13_NoRescan ==
  [][/\ (CompletedPlaceholder /\ ~suspends(This)
           /\ truthy(resolveVariable(trim(RawName))))
          => /\ out' = out \o resolveVariable(trim(RawName)).bytes
             /\ stack' = AfterPlaceholder
             /\ stackIndex' = 0
             /\ matchCount' = 0
             /\ state' = SEARCHING_START_PATTERN
             /\ calls' = Append(calls, trim(RawName))
     /\ (pc = "awaitValue" /\ truthy(awaiting))
          => /\ stack' = SubSeq(stack, stackIndex + 1, Len(stack))
             /\ stackIndex' = 0
             /\ matchCount' = 0
             /\ state' = SEARCHING_START_PATTERN
             /\ calls' = calls
     /\ pc \in {"forward", "awaitDrain"}
          => UNCHANGED <<stack, state, matchCount, stackIndex, calls>>]_vars

C13_Witness ==
  /\ pc = "done"
  /\ resolver = PatternValueMap(options)
  /\ ingested = <<"{", "a", "}", "a">>
  /\ SP = <<"{">>
  /\ calls = << <<"a">> >>
  /\ out = <<"{", "a", "}", "a">>

\* the engine after the step
EngineAfter ==
  [ stack |-> stack', state |-> state', matchCount |-> matchCount',
    stackIndex |-> stackIndex', out |-> out', error |-> error',
    back |-> back', calls |-> calls' ]

\* C16: output order under asynchronous resolution - while _transform awaits
\* a value nothing is pushed and the stack is not touched, and when the loop
\* goes on behind an awaited value the engine (output, stack, cursor, counter,
\* state, calls) is exactly what the same loop iteration gives when it runs to
\* its end in one step, as it does for a resolver that returns the same value
\* synchronously
C16_AsyncOrder ==
  [][/\ pc = "awaitValue"
          => /\ out = suspended.out
             /\ stack = suspended.stack
     /\ (pc \in {"awaitValue", "forward"} /\ pc' \in {"loop", "failed"})
          => EngineAfter = loopBody(suspended)]_vars

C16_Witness ==
  /\ pc = "done"
  /\ resolver = PromiseMap
  /\ SP = <<"{">>
  /\ ingested = <<"a", "{", "a", "}", "a">>
  /\ calls = << <<"a">> >>
  /\ out = <<"a", "V", "a">>

\* C20: backpressure while forwarding - once a push of the forwarding loop
\* has returned false, no chunk is pulled from the Readable and nothing is
\* pushed until 'drain' is emitted; every pulled chunk is the next chunk of
\* the Readable and goes to the end of the output
C20_Backpressure ==
  [][/\ ~accepted
          => \/ source' = source /\ out' = out
             \/ needDrain /\ ~needDrain'
     /\ source' # source
          => \/ pc = "awaitValue" /\ source' = awaiting.chunks /\ out' = out
             \/ source' = Tail(source) /\ out' = out \o Head(source)]_vars

C20_Witness ==
  /\ pc = "awaitDrain"
  /\ ~accepted
  /\ out = <<"a", "S">>
  /\ source = << <<"T", "U">> >>
  /\ ingested = <<"a", "{", "a", "}", "a">>
  /\ stack = <<"a">>

\* C26: cursor invariant - in every reachable state of a constructed stream
\* the cursor is within the stack: 0 <= _stackIndex <= _stack.length
C26_CursorInvariant ==
  pc \in {"idle", "loop", "done"} => (0 <= stackIndex /\ stackIndex <= Len(stack))

\* C27: pending buffer bound - whenever _transform has returned without
\* error, the stack holds at most start pattern length + maxVariableNameLength
\* + end pattern length bytes
C27_PendingBufferBound ==
  pc = "idle" =>
    Len(stack) <= Len(SP) + options.maxVariableNameLength + Len(EP)

StateChange == pc = "loop" /\ pc' = "loop" /\ state' # state

\* the pattern the counter counts matched bytes of
TargetLength(st) ==
  IF st = SEARCHING_START_PATTERN THEN Len(SP)
  ELSE IF st = SEARCHING_END_PATTERN THEN Len(EP) ELSE 0

\* C29: match progress counter reset - the counter is 0 right after every
\* change of the matching state and never exceeds the length of the pattern
\* being matched
C29_CounterReset ==
  [][/\ StateChange => matchCount' = 0
     /\ pc' \in {"idle", "loop"} => matchCount' <= TargetLength(state')]_vars

\* C25: termination of process - with a synchronous resolver every _transform
\* call ends: the loop over the stack stops and the callback is called, with
\* or without an error (a run that leaves the explored range of the counters
\* is not judged, so that only a loop that repeats its state is a violation)
C25_Termination ==
  (pc = "loop") ~> \/ pc \in {"idle", "failed"}
                   \/ matchCount > MaxMatchCount
                   \/ Len(calls) >= MaxCalls

FirstStart(s) ==
  LET starts == {i \in 1..Len(s) : StartsWith(SubSeq(s, i, Len(s)), SP)}
  IN IF starts = {} THEN 0 ELSE CHOOSE i \in starts : \A j \in starts : i <= j

\* the SEARCHING_START case runs on a stack that holds a complete start
\* pattern and ends without a throw
StartSearchStep ==
  /\ pc = "loop"
  /\ pc' = "loop"
  /\ state = SEARCHING_START_PATTERN
  /\ 0 <= stackIndex
  /\ stackIndex < Len(stack)
  /\ FirstStart(stack) # 0

\* C30: start-pattern detection is complete - the SEARCHING_START case never
\* releases a byte of the leftmost complete start pattern in the stack, and
\* when it has reached that occurrence the engine is in PROCESSING_VARIABLE
\* with the occurrence at the head of the stack
C30_StartDetection ==
  [][StartSearchStep
       => /\ Len(stack) - Len(stack') <= FirstStart(stack) - 1
          /\ state' = PROCESSING_VARIABLE
               => stack' = SubSeq(stack, FirstStart(stack), Len(stack))]_vars

\* C23: one-shot operations equal the streaming engine - for an input written
\* to a fresh stream as one chunk and followed by the end, replaceAsync
\* returns the concatenation of everything the stream pushed,
\* replaceStringAsync the text of the same bytes, and a stream that failed
\* makes replaceAsync fail with the same error
C23_OneShotEqualsEngine ==
  /\ pc = "done" =>
        /\ replaceAsync(ingested).status = "done"
        /\ replaceAsync(ingested).out = out
        /\ replaceStringAsync(ingested).status = "done"
        /\ replaceStringAsync(ingested).text = toString(out)
  /\ pc = "failed" =>
        /\ replaceAsync(ingested).status = "failed"
        /\ replaceAsync(ingested).error = error
        /\ replaceStringAsync(ingested).error = error

C23_Witness ==
  /\ pc = "done"
  /\ SP = <<"{">>
  /\ ingested = <<" ", "{", "a", "}", "{">>
  /\ out = <<" ", "V", "{">>
  /\ replaceStringAsync(ingested).text = <<32, 86, 123>>

\* the error the upstream producer ended with
UpstreamError == [kind |-> "UpstreamError", name |-> <<>>]

\* C22: upstream error propagation - after the upstream producer ended with
\* an error nothing more is pushed, and the stream fails with that error, so
\* that the promise of replaceAsync is rejected instead of pending forever
C22_UpstreamError ==
  /\ [][upstream = "failed" => out' = out]_vars
  /\ ((upstream = "failed") ~> (pc = "failed" /\ error = UpstreamError))

\* the step at which the failure of the resolver reaches _transform, and what
\* it failed with
ResolverFails ==
  \/ pc = "awaitValue" /\ awaiting.kind \in {"throws", "rejected"}
  \/ pc = "forward" /\ Head(source) = StreamFailed

Failure ==
  IF pc = "awaitValue" THEN awaiting.error
  ELSE resolveVariable(calls[Len(calls)]).error

EndPatternMismatch ==
  /\ pc = "loop"
  /\ state = SEARCHING_END_PATTERN
  /\ 0 <= stackIndex
  /\ stackIndex < Len(stack)
  /\ matchCount < Len(EP)
  /\ At(stack, stackIndex) # At(EP, matchCount)

\* C31: end-pattern mismatch - when a byte differs from the expected
\* end-pattern byte, the bytes of the stack before it are pushed, the resolver
\* is not called, the engine is back in SEARCHING_START with counter 0 and the
\* mismatching byte is the first byte of the stack, still to be examined
C31_EndPatternMismatch ==
  [][EndPatternMismatch
       => /\ out' = out \o SubSeq(stack, 1, stackIndex)
          /\ stack' = SubSeq(stack, stackIndex + 1, Len(stack))
          /\ calls' = calls
          /\ state' = SEARCHING_START_PATTERN
          /\ matchCount' = 0
          /\ stackIndex' = 0
          /\ pc' = "loop"]_vars

\* the end pattern was split across two chunks: the stack held its first
\* byte when the first _transform returned, the second chunk is not its rest
C31_Witness ==
  /\ pc = "loop"
  /\ state = SEARCHING_START_PATTERN
  /\ SP = <<"{", "{">>
  /\ ingested = <<"{", "{", "a", "}", "{">>
  /\ out = <<"{", "{", "a", "}">>
  /\ stack = <<"{">>
  /\ stackIndex = 0
  /\ matchCount = 0
  /\ calls = <<>>

\* s holds no first byte of the start pattern
DelimiterFree(s) == \A k \in 1..Len(s) : s[k] # SP[1]

\* C32: identical delimiters - with the end pattern equal to the start
\* pattern, an input that consists of delimiter-free text, the delimited known
\* name a and delimiter-free text comes out with the delimited name replaced
\* by the value of a
C32_IdenticalDelimiters ==
  (pc = "done" /\ SP = EP) =>
    \A i \in 0..Len(ingested) : \A j \in 1..(Len(ingested) + 1) :
      LET before == SubSeq(ingested, 1, i)
          after == SubSeq(ingested, j, Len(ingested))
      IN (/\ DelimiterFree(before)
          /\ DelimiterFree(after)
          /\ ingested = before \o SP \o <<"a">> \o EP \o after)
           => out = before \o <<"V">> \o after

\* how often the byte b occurs in s, and how often the name a was resolved
Count(s, b) == Cardinality({i \in 1..Len(s) : s[i] = b})
ResolvedCalls == Cardinality({i \in 1..Len(calls) : calls[i] = <<"a">>})

\* _flush runs: the end of the output is signalled behind it
FlushStep == pc # "done" /\ pc' = "done"

\* C33: no premature end during the last chunk - _flush runs only when no
\* _transform is suspended: no value is awaited, no Readable is being
\* forwarded, the loop over the last chunk has ended; every Readable or
\* promised value the resolver was asked for is in the output completely, and
\* the output ends with the flushed stack
C33_NoPrematureEnd ==
  [][FlushStep
       => /\ pc = "idle"
          /\ awaiting = Undefined
          /\ source = <<>>
          /\ stackIndex >= Len(stack)
          /\ out' = out \o stack
          /\ resolver = StreamMap
               => /\ Count(out, "S") = ResolvedCalls
                  /\ Count(out, "U") = ResolvedCalls
          /\ resolver = PromiseMap => Count(out, "V") = ResolvedCalls]_vars

C33_Witness ==
  /\ pc = "done"
  /\ resolver = StreamMap
  /\ ingested = <<"{", "a", "}", "{">>
  /\ calls = << <<"a">> >>
  /\ out = <<"S", "T", "U", "{">>

\* C34: backpressure does not deadlock - a _transform that waits in
\* once(this, "drain") because push returned false goes on forwarding once
\* the consumer has drained the output
C34_NoBackpressureDeadlock == (pc = "awaitDrain") ~> (pc # "awaitDrain")

\* leftmost, non-overlapping search and replace: at every position where a
\* start pattern, a name free of the first bytes of both patterns, shorter
\* than the limit and known to the resolver, and an end pattern begin, the
\* value takes their place; every other byte is copied
RECURSIVE Replaced(_)
Replaced(s) ==
  IF s = <<>> THEN <<>>
  ELSE LET after == SubSeq(s, Len(SP) + 1, Len(s))
           n == NameLength(after)
           value == resolveVariable(trim(SubSeq(after, 1, n)))
       IN IF /\ StartsWith(s, SP)
             /\ StartsWith(SubSeq(after, n + 1, Len(after)), EP)
             /\ n < options.maxVariableNameLength
             /\ value # Undefined
            THEN value.bytes
                   \o Replaced(SubSeq(after, n + Len(EP) + 1, Len(after)))
            ELSE <<Head(s)>> \o Replaced(Tail(s))

\* C35: every placeholder occurrence is replaced - the output of a finished
\* run is the input with every leftmost, non-overlapping placeholder of a
\* known name replaced by its value, also when first bytes of the start
\* pattern stand in front of the placeholder
C35_EveryOccurrenceReplaced ==
  pc = "done" => out = Replaced(ingested)

\* no call of the resolver returned a value that was substituted
Unsubstituted ==
  \A i \in 1..Len(calls) :
    LET returned == resolveVariable(calls[i])
    IN ~truthy(IF returned.kind = "promise" THEN returned.value ELSE returned)

\* C36: byte conservation - under the lenient policy, whenever _transform has
\* returned, the bytes that have left the stack (the output with every value
\* taken back to the placeholder it replaced) followed by the stack are the
\* input received so far, and after _flush they are the whole input; where
\* nothing was substituted this is the output itself
C36_ByteConservation ==
  ~strict =>
    /\ pc = "idle" => /\ back \o stack = ingested
                      /\ Unsubstituted => out \o stack = ingested
    /\ pc = "done" => /\ back = ingested
                      /\ Unsubstituted => out = ingested

C36_Witness ==
  /\ pc = "done"
  /\ ~strict
  /\ SP = <<"{", "{">>
  /\ ingested = <<"{", "{", "a", "}", "}">>
  /\ out = <<"V">>
  /\ back = ingested

\* C37: the stack starts at the open placeholder - whenever the engine is in
\* PROCESSING_VARIABLE or SEARCHING_END_PATTERN, the stack begins with the
\* complete start pattern and the cursor is behind it
C37_StackStartsAtPlaceholder ==
  (pc \in {"idle", "loop"}
     /\ state \in {PROCESSING_VARIABLE, SEARCHING_END_PATTERN})
    => /\ StartsWith(stack, SP)
       /\ stackIndex >= Len(SP)

\* C38: resolver invocation discipline - the resolver is called only by the
\* step that verifies a completed placeholder at the head of the stack, once
\* and with the trimmed name of that placeholder, so that the calls are in
\* input order; no other step (abandoning an attempt, scanning a value) calls
\* it
C38_ResolverDiscipline ==
  [][/\ calls' # calls => CompletedPlaceholder
     /\ CompletedPlaceholder => calls' = Append(calls, trim(RawName))]_vars

====
